---------------------------- MODULE Spec2Model ----------------------------
(***************************************************************************)
(* A model of the PLY metadata pipeline of backend/ply_processor.py        *)
(* (PLYProcessor) and of the three call sites of backend/app.py that run   *)
(* it (initialize_scene_info, regenerate_info, get_scene_info).            *)
(*                                                                         *)
(* Representation.                                                         *)
(*  - A filename or key is a sequence of one-character strings.            *)
(*  - A text line of a file is the sequence of its whitespace-separated    *)
(*    tokens (what line.split() returns); a token is a string.  The blank  *)
(*    line, and what readline() returns at end of stream, is << >>.        *)
(*  - A float is an integer in units of 10^-5.  The literals that occur    *)
(*    are multiples of 1/32, which binary floating point holds exactly,    *)
(*    so sums and differences are exact and round(v, 4) is a tie exactly   *)
(*    when the units digit is 5.  +inf and -inf are the sentinels PosInf   *)
(*    and NegInf, NaN is the sentinel NaN.                                 *)
(*  - A 4-byte word of a binary body is the pair of floats its bytes       *)
(*    decode to in the two byte orders.                                    *)
(*  - A file is [name, lines, words, extra]: its text lines, then the      *)
(*    4-byte words that follow them, then extra (0..3) trailing bytes.     *)
(*    Files have words only after an end_header line of a binary format.   *)
(*  - Directory listing is case-sensitive (POSIX).                         *)
(*                                                                         *)
(* Inputs.  Coordinates are finite (no nan or inf literal); a body is of   *)
(* the kind its header declares; files open and decode as ASCII.           *)
(* read_ply_header is not part of the state machine: no code path of the   *)
(* pipeline calls it.                                                      *)
(***************************************************************************)
EXTENDS Integers, Sequences, FiniteSets, TLC

(***************************************************************************)
(* Bounds of the model.                                                    *)
(***************************************************************************)
MaxFiles == 2        \* files in a directory of Spec
MaxKeyFiles == 3     \* files in a directory of SpecKeys
MaxVerts == 3        \* largest declared vertex count in SpecBox
MaxBody == 3         \* text lines after the header in SpecBox
MaxWords == 6        \* 4-byte words after the header in SpecBox
MaxRuns == 1         \* requests served after startup
MaxEofReads == 2     \* reads at end of stream are counted modulo MaxEofReads + 1
MaxChunks == 4       \* pieces a filename stem of SpecNames is put together from

(***************************************************************************)
(* Characters and strings.                                                 *)
(***************************************************************************)
Ord(c) ==
  CASE c = " " -> 32 [] c = "-" -> 45 [] c = "." -> 46
    [] c = "0" -> 48 [] c = "1" -> 49 [] c = "2" -> 50 [] c = "3" -> 51
    [] c = "4" -> 52 [] c = "5" -> 53 [] c = "6" -> 54 [] c = "7" -> 55
    [] c = "8" -> 56 [] c = "9" -> 57
    [] c = "B" -> 66 [] c = "L" -> 76 [] c = "P" -> 80 [] c = "Y" -> 89
    [] c = "_" -> 95 [] c = "b" -> 98 [] c = "l" -> 108 [] c = "p" -> 112
    [] c = "t" -> 116 [] c = "x" -> 120 [] c = "y" -> 121

Lower(c) ==
  CASE c = "B" -> "b" [] c = "L" -> "l" [] c = "P" -> "p" [] c = "Y" -> "y"
    [] OTHER -> c

LowerStr(s) == [i \in 1..Len(s) |-> Lower(s[i])]

RECURSIVE LexLess(_, _)
LexLess(a, b) ==
  IF a = << >> THEN b # << >>
  ELSE IF b = << >> THEN FALSE
  ELSE IF Head(a) = Head(b) THEN LexLess(Tail(a), Tail(b))
  ELSE Ord(Head(a)) < Ord(Head(b))

StartsWith(s, pat) ==
  /\ Len(s) >= Len(pat)
  /\ SubSeq(s, 1, Len(pat)) = pat

EndsWith(s, pat) ==
  /\ Len(s) >= Len(pat)
  /\ SubSeq(s, Len(s) - Len(pat) + 1, Len(s)) = pat

\* str.replace(pat, ''): left to right, non-overlapping, one pass
RECURSIVE Remove(_, _)
Remove(s, pat) ==
  IF Len(s) < Len(pat) THEN s
  ELSE IF StartsWith(s, pat) THEN Remove(SubSeq(s, Len(pat) + 1, Len(s)), pat)
  ELSE <<Head(s)>> \o Remove(Tail(s), pat)

DotPly == <<".", "p", "l", "y">>
DotPLY == <<".", "P", "L", "Y">>

Digit(n) ==
  CASE n = 0 -> "0" [] n = 1 -> "1" [] n = 2 -> "2" [] n = 3 -> "3"
    [] n = 4 -> "4" [] n = 5 -> "5" [] n = 6 -> "6" [] n = 7 -> "7"
    [] n = 8 -> "8" [] n = 9 -> "9"

\* str(n) for n >= 0
RECURSIVE IntToStr(_)
IntToStr(n) ==
  IF n < 10 THEN <<Digit(n)>> ELSE IntToStr(n \div 10) \o <<Digit(n % 10)>>

(***************************************************************************)
(* Identity and labels.                                                    *)
(***************************************************************************)
generate_object_name(filename) == Remove(Remove(filename, DotPly), DotPLY)

\* f"{original_key}_{suffix}"
SuffixedKey(original_key, suffix) == original_key \o <<"_">> \o IntToStr(suffix)

\* a mutant of the uniqueness loop: the suffix is added once, never re-tested
UniqueKeyOnce(object_key, original_key, suffix, taken) ==
  IF object_key \in taken THEN SuffixedKey(original_key, suffix) ELSE object_key

\* the loop "while object_key in info['name']"
RECURSIVE UniqueKey(_, _, _, _)
UniqueKey(object_key, original_key, suffix, taken) ==
  IF object_key \in taken
  THEN UniqueKey(SuffixedKey(original_key, suffix), original_key, suffix + 1, taken)
  ELSE object_key

\* a mutant of the pattern of line 183: the hyphen is not a delimiter
IsDelimNoHyphen(c) == c \in {"_", " "}

IsDelim(c) == c \in {"_", "-", " "}

\* re.split(r'[_\-\s]+', s)
RECURSIVE SplitRec(_, _, _, _, _)
SplitRec(s, i, cur, acc, prevDelim) ==
  IF i > Len(s) THEN Append(acc, cur)
  ELSE IF IsDelim(s[i])
       THEN IF prevDelim THEN SplitRec(s, i + 1, cur, acc, TRUE)
            ELSE SplitRec(s, i + 1, << >>, Append(acc, cur), TRUE)
       ELSE SplitRec(s, i + 1, Append(cur, s[i]), acc, FALSE)

Split(s) == SplitRec(s, 1, << >>, << >>, FALSE)

SeqRange(s) == {s[i] : i \in 1..Len(s)}

RECURSIVE AddTokens(_, _, _, _)
AddTokens(tokens, i, labels, lowered) ==
  IF i > Len(tokens) THEN labels
  ELSE IF /\ Len(tokens[i]) > 1
          /\ tokens[i] \notin SeqRange(labels)
          /\ tokens[i] # lowered
       THEN AddTokens(tokens, i + 1, Append(labels, tokens[i]), lowered)
       ELSE AddTokens(tokens, i + 1, labels, lowered)

generate_labels(filename) ==
  LET base_name == Remove(Remove(filename, DotPly), DotPLY)
      tokens == Split(LowerStr(base_name))
  IN  AddTokens(tokens, 1, <<base_name>>, LowerStr(base_name))


(***************************************************************************)
(* Floats: integers in units of 10^-5, with sentinels for inf and NaN.     *)
(***************************************************************************)
PosInf == 1000000000
NegInf == -1000000000
NaN == 2000000000

IsFinite(v) == v # PosInf /\ v # NegInf /\ v # NaN

\* a - b
FSub(a, b) ==
  IF a = NaN \/ b = NaN THEN NaN
  ELSE IF IsFinite(a) /\ IsFinite(b) THEN a - b
  ELSE IF IsFinite(a) THEN (IF b = PosInf THEN NegInf ELSE PosInf)
  ELSE IF IsFinite(b) THEN a
  ELSE IF a = b THEN NaN ELSE a

\* a mutant of round(v, 4): truncation toward minus infinity
Round4Floor(v) == IF IsFinite(v) THEN (v \div 10) * 10 ELSE v

\* round(v, 4): to the nearest multiple of 10^-4, an exact tie to the even one;
\* inf and NaN are returned as they are
Round4(v) ==
  IF ~IsFinite(v) THEN v
  ELSE LET q == v \div 10
           r == v % 10
       IN  IF r < 5 THEN q * 10
           ELSE IF r > 5 THEN (q + 1) * 10
           ELSE IF q % 2 = 0 THEN q * 10 ELSE (q + 1) * 10

\* min(a, b) and max(a, b) of the builtins: the first argument wins a tie
FMin(a, b) == IF b < a THEN b ELSE a
FMax(a, b) == IF b > a THEN b ELSE a

\* the float literals of the model's files, and float(tok)
FloatLits == {"0.0", "0.03125", "0.0625", "0.09375", "1.0", "-1.0"}
IsFloatLit(tok) == tok \in FloatLits
FloatOf(tok) ==
  CASE tok = "0.0" -> 0 [] tok = "0.03125" -> 3125 [] tok = "0.0625" -> 6250
    [] tok = "0.09375" -> 9375 [] tok = "1.0" -> 100000 [] tok = "-1.0" -> -100000

\* the integer literals of the model's files, and int(tok)
DecTok(n) ==
  CASE n = 0 -> "0" [] n = 1 -> "1" [] n = 2 -> "2" [] n = 3 -> "3"
    [] n = 4 -> "4" [] n = 5 -> "5" [] n = 6 -> "6" [] n = 7 -> "7"
    [] n = 8 -> "8" [] n = 9 -> "9"
IsIntLit(tok) == \E n \in 0..9 : DecTok(n) = tok
IntOf(tok) == CHOOSE n \in 0..9 : DecTok(n) = tok

\* a mutant of struct.unpack: the declared byte order is ignored
UnpackNative(endian, word) == word.le

\* struct.unpack of one 4-byte word in the byte order of endian
Unpack(endian, word) == IF endian = "<" THEN word.le ELSE word.be

(***************************************************************************)
(* compute_bounding_box: the header.                                       *)
(***************************************************************************)
EndHeader == <<"end_header">>

\* one pass of "for line in header_lines" (lines 75-81); err is an exception
\* raised by split()[1] or int()
ParseLine(acc, line) ==
  IF acc.err THEN acc
  ELSE IF Len(line) >= 1 /\ line[1] = "format"
       THEN IF Len(line) >= 2 THEN [acc EXCEPT !.format_type = line[2]]
            ELSE [acc EXCEPT !.err = TRUE]
  ELSE IF Len(line) >= 2 /\ line[1] = "element" /\ line[2] = "vertex"
       THEN IF IsIntLit(line[Len(line)])
            THEN [acc EXCEPT !.vertex_count = IntOf(line[Len(line)])]
            ELSE [acc EXCEPT !.err = TRUE]
  ELSE IF Len(line) >= 1 /\ line[1] = "property"
       THEN [acc EXCEPT !.properties = Append(acc.properties, line[Len(line)])]
  ELSE acc

RECURSIVE ParseLines(_, _, _)
ParseLines(lines, i, acc) ==
  IF i > Len(lines) THEN acc
  ELSE ParseLines(lines, i + 1, ParseLine(acc, lines[i]))

ParseHeaderLines(lines) ==
  ParseLines(lines, 1,
             [err |-> FALSE, format_type |-> "ascii", vertex_count |-> 0,
              properties |-> << >>])

\* properties.index(p), zero-based; -1 stands for the ValueError
Index(props, p) ==
  IF p \in SeqRange(props)
  THEN (CHOOSE i \in 1..Len(props) :
          props[i] = p /\ \A j \in 1..(i - 1) : props[j] # p) - 1
  ELSE -1

Max3(a, b, c) == IF a >= b /\ a >= c THEN a ELSE IF b >= c THEN b ELSE c

BinaryFormats == {"binary_little_endian", "binary_big_endian"}

\* lines 108-113 and 136-141: fold one vertex into the accumulator
Fold(acc, x, y, z) ==
  [mn |-> <<FMin(acc.mn[1], x), FMin(acc.mn[2], y), FMin(acc.mn[3], z)>>,
   mx |-> <<FMax(acc.mx[1], x), FMax(acc.mx[2], y), FMax(acc.mx[3], z)>>]

\* lines 93-94
EmptyAcc == [mn |-> <<PosInf, PosInf, PosInf>>, mx |-> <<NegInf, NegInf, NegInf>>]

None == [none |-> TRUE]
IsNone(b) == "none" \in DOMAIN b

\* lines 144-156: the size of the box (the center is returned too, and dropped
\* by the caller)
BoxOf(acc) ==
  [x |-> Round4(FSub(acc.mx[1], acc.mn[1])),
   y |-> Round4(FSub(acc.mx[2], acc.mn[2])),
   z |-> Round4(FSub(acc.mx[3], acc.mn[3]))]


(***************************************************************************)
(* The files the model reads.                                              *)
(***************************************************************************)
SeqsUpTo(S, n) == UNION {[1..k -> S] : k \in 0..n}

PropertyLines(props) == [i \in 1..Len(props) |-> <<"property", "float", props[i]>>]

\* a header: magic line, format line (none when fmt = ""), vertex element,
\* vertex properties, and the terminator when term
HeaderText(magic, fmt, nTok, props, term) ==
  <<<<magic>>>>
  \o (IF fmt = "" THEN << >> ELSE <<<<"format", fmt, "1.0">>>>)
  \o <<<<"element", "vertex", nTok>>>>
  \o PropertyLines(props)
  \o (IF term THEN <<EndHeader>> ELSE << >>)

TextFile(name, lines) ==
  [name |-> name, isfile |-> TRUE, lines |-> lines, words |-> << >>, extra |-> 0]

BinaryFile(name, lines, words, extra) ==
  [name |-> name, isfile |-> TRUE, lines |-> lines, words |-> words, extra |-> extra]

XYZ == <<"x", "y", "z">>
PropLists == {XYZ, <<"y", "x">>, <<"w", "z", "y", "x">>}

LineA == <<"0.0", "0.0", "0.0">>
LineB == <<"0.03125", "1.0", "-1.0">>
LineC == <<"1.0", "0.0", "0.09375", "0.0625">>
LineShort == <<"1.0">>
LineBlank == << >>
LineBad == <<"0.0", "n/a", "0.0">>
LinePool == {LineA, LineB, LineC, LineShort, LineBlank, LineBad}

WordA == [le |-> 0, be |-> 100000]
WordB == [le |-> 3125, be |-> 0]
WordPool == {WordA, WordB}

NameB == <<"b", ".", "p", "l", "y">>

VertexTokens == {DecTok(n) : n \in 0..MaxVerts} \cup {"many"}

\* the files of SpecBox: every header shape with every short body
BoxTextFiles ==
  {TextFile(NameB, HeaderText("ply", fmt, nTok, props, TRUE) \o body) :
     fmt \in {"ascii", ""}, nTok \in VertexTokens, props \in PropLists,
     body \in SeqsUpTo(LinePool, MaxBody)}

BoxBinaryFiles ==
  {BinaryFile(NameB, HeaderText("ply", fmt, nTok, XYZ, TRUE), words, extra) :
     fmt \in BinaryFormats, nTok \in VertexTokens,
     words \in SeqsUpTo(WordPool, MaxWords), extra \in {0, 3}}

BoxOtherFiles ==
  {TextFile(NameB, HeaderText("ply", "binary", nTok, props, TRUE)) :
     nTok \in VertexTokens, props \in PropLists}
  \cup {TextFile(NameB, HeaderText("ply", "ascii", nTok, props, FALSE)) :
          nTok \in VertexTokens, props \in PropLists}

BoxFiles == BoxTextFiles \cup BoxBinaryFiles \cup BoxOtherFiles

\* the file contents of Spec: one of each kind of file the builder meets
GoodLines == HeaderText("ply", "ascii", "2", XYZ, TRUE) \o <<LineA, LineB>>
BadMagicLines == HeaderText("plx", "ascii", "2", XYZ, TRUE) \o <<LineA, LineB>>
NoEndLines == HeaderText("ply", "ascii", "1", XYZ, FALSE) \o <<LineB>>
NoZLines == HeaderText("ply", "ascii", "1", <<"x", "y">>, TRUE) \o <<LineB>>
ZeroLines == HeaderText("ply", "ascii", "0", XYZ, TRUE)
BadFormatLines == <<<<"ply">>, <<"format">>, EndHeader>>
BinLines == HeaderText("ply", "binary_little_endian", "2", XYZ, TRUE)

MainNames ==
  {NameB, <<"b", ".", "P", "L", "Y">>, <<"b", "_", "1", ".", "p", "l", "y">>,
   <<"b", ".", "t", "x", "t">>}

MainEntries ==
  {TextFile(n, l) :
     n \in MainNames,
     l \in {GoodLines, BadMagicLines, NoEndLines, NoZLines, ZeroLines, BadFormatLines}}
  \cup {BinaryFile(n, BinLines, <<WordB, WordA, WordA, WordA>>, 0) : n \in MainNames}
  \cup {[name |-> NameB, isfile |-> FALSE, lines |-> << >>, words |-> << >>,
         extra |-> 0]}

\* the filenames of SpecKeys: stems that normalize to a few bases, both extensions
KeyStems ==
  {<<"b">>, <<"b">> \o DotPly, <<"b">> \o DotPLY, <<"b", "_", "1">>,
   <<"b", "_", "2">>, <<"b", "_", "1", "_", "1">>}

KeyEntries ==
  {TextFile(stem \o ext, HeaderText("ply", "ascii", "1", XYZ, TRUE) \o <<LineB>>) :
     stem \in KeyStems, ext \in {DotPly, DotPLY}}

\* the filenames of SpecNames: stems put together from short and long words in
\* both cases, the three delimiters and the two extensions, then an extension
NameChunks ==
  {<<"b">>, <<"B", "l">>, <<"_">>, <<"-">>, <<" ">>, DotPly, DotPLY}

RECURSIVE Concat(_)
Concat(chunks) ==
  IF chunks = << >> THEN << >> ELSE Head(chunks) \o Concat(Tail(chunks))

NameStems == {Concat(chunks) : chunks \in SeqsUpTo(NameChunks, MaxChunks)}

NameEntries ==
  {TextFile(stem \o ext, HeaderText("ply", "ascii", "1", XYZ, TRUE) \o <<LineB>>) :
     stem \in NameStems, ext \in {DotPly, DotPLY}}

\* directories: sets of at most n entries with distinct names
RECURSIVE Directories(_, _)
Directories(entries, n) ==
  IF n = 0 THEN {{}}
  ELSE LET smaller == Directories(entries, n - 1)
       IN  smaller \cup
           {p[1] \cup {p[2]} :
              p \in {q \in smaller \X entries : \A f \in q[1] : f.name # q[2].name}}


(***************************************************************************)
(* State.                                                                  *)
(***************************************************************************)
VARIABLES
  dirExists,     \* PUBLIC_DIR / ply_directory exists
  dir,           \* its entries
  stored,        \* what is at INFO_JSON_PATH / output_path
  prior,         \* what was there when the running operation began (history)
  pc,            \* where the single thread of the server is
  op,            \* the operation it runs: "init", "regen" or "get"
  runs,          \* requests served
  result,        \* what the last operation returned: "none", "ok", "fail"
  info,          \* generate_info_json: the index under construction
  ply_files,     \* generate_info_json: the scanned files
  idx,           \* generate_info_json: position of ply_file in ply_files
  object_key,    \* generate_info_json: the key of ply_file
  header_lines,  \* compute_bounding_box: the lines read from the stream
  eof_reads,     \* compute_bounding_box: the empty lines header_lines ends with,
                 \* read at end of stream, counted modulo MaxEofReads + 1
  fpos,          \* compute_bounding_box: text lines of f consumed
  wpos,          \* compute_bounding_box: 4-byte words of f consumed
  format_type,   \* compute_bounding_box
  vertex_count,  \* compute_bounding_box
  properties,    \* compute_bounding_box
  vi,            \* compute_bounding_box: iterations of the vertex loop done
  acc,           \* compute_bounding_box: min_x .. max_z
  bbox           \* generate_info_json: what compute_bounding_box returned

appVars == <<dirExists, dir, stored, prior, op, runs, result>>
buildVars == <<info, ply_files, idx, object_key>>
boxVars ==
  <<header_lines, eof_reads, fpos, wpos, format_type, vertex_count, properties, vi,
    acc, bbox>>
vars == <<appVars, pc, buildVars, boxVars>>

Absent == [kind |-> "absent"]
Valid(i) == [kind |-> "valid", info |-> i]
Partial == [kind |-> "partial"]
Exists(s) == s.kind # "absent"

EmptyInfo == [name |-> << >>, bounding_box |-> << >>, labels |-> << >>]

\* a mutant of lines 256-260: a default box of size zero
ZeroBox == [x |-> 0, y |-> 0, z |-> 0]

\* lines 256-260
UnitBox == [x |-> 100000, y |-> 100000, z |-> 100000]

\* an index an earlier run of the server left behind
PriorIndex ==
  [name |-> (<<"o">> :> <<"o", ".", "p", "l", "y">>),
   bounding_box |-> (<<"o">> :> UnitBox),
   labels |-> (<<"o", ".", "p", "l", "y">> :> <<<<"o">>>>)]

\* d[k] = v
Put(d, k, v) == [j \in DOMAIN d \cup {k} |-> IF j = k THEN v ELSE d[j]]

RECURSIVE SortFiles(_)
SortFiles(S) ==
  IF S = {} THEN << >>
  ELSE LET m == CHOOSE f \in S : \A g \in S \ {f} : LexLess(f.name, g.name)
       IN  <<m>> \o SortFiles(S \ {m})

scan_ply_files(exists, d) ==
  IF ~exists THEN << >>
  ELSE SortFiles({f \in d : f.isfile /\ EndsWith(f.name, DotPly)}
                 \cup {f \in d : f.isfile /\ EndsWith(f.name, DotPLY)})

InitLocals ==
  /\ pc = "boot" /\ op = "none" /\ runs = 0 /\ result = "none"
  /\ info = EmptyInfo /\ ply_files = << >> /\ idx = 1 /\ object_key = << >>
  /\ header_lines = << >> /\ eof_reads = 0 /\ fpos = 0 /\ wpos = 0
  /\ format_type = "ascii" /\ vertex_count = 0 /\ properties = << >>
  /\ vi = 0 /\ acc = EmptyAcc /\ bbox = None

Init ==
  /\ dirExists \in BOOLEAN
  /\ dir \in Directories(MainEntries, MaxFiles)
  /\ dirExists \/ dir = {}
  /\ stored \in {Absent, Valid(PriorIndex)}
  /\ prior = stored
  /\ InitLocals

InitKeys ==
  /\ dirExists = TRUE
  /\ dir \in Directories(KeyEntries, MaxKeyFiles)
  /\ stored = Absent
  /\ prior = stored
  /\ InitLocals

InitBox ==
  /\ dirExists = TRUE
  /\ dir \in {{f} : f \in BoxFiles}
  /\ stored = Absent
  /\ prior = stored
  /\ InitLocals

InitNames ==
  /\ dirExists = TRUE
  /\ dir \in {{f} : f \in NameEntries}
  /\ stored = Absent
  /\ prior = stored
  /\ InitLocals


(***************************************************************************)
(* app.py: the three call sites of auto_generate_info_json.                *)
(***************************************************************************)
\* initialize_scene_info, run once when the module is loaded
InitializeSceneInfo ==
  /\ pc = "boot"
  /\ prior' = stored
  /\ IF dirExists /\ ~Exists(stored)
     THEN pc' = "scan" /\ op' = "init"
     ELSE pc' = "idle" /\ op' = "none"
  /\ UNCHANGED <<dirExists, dir, stored, runs, result, buildVars, boxVars>>

\* POST /api/regenerate-info: unlink the index, then build
RegenerateInfo ==
  /\ pc = "idle"
  /\ runs < MaxRuns
  /\ runs' = runs + 1
  /\ prior' = stored
  /\ stored' = Absent
  /\ op' = "regen"
  /\ result' = "none"
  /\ pc' = "scan"
  /\ UNCHANGED <<dirExists, dir, buildVars, boxVars>>

\* GET /api/scene-info: build when the index is missing, then read it
GetSceneInfo ==
  /\ pc = "idle"
  /\ runs < MaxRuns
  /\ runs' = runs + 1
  /\ prior' = stored
  /\ op' = "get"
  /\ IF ~Exists(stored)
     THEN pc' = "scan" /\ result' = "none"
     ELSE pc' = "idle" /\ result' = (IF stored.kind = "valid" THEN "ok" ELSE "fail")
  /\ UNCHANGED <<dirExists, dir, stored, buildVars, boxVars>>

(***************************************************************************)
(* generate_info_json.                                                     *)
(***************************************************************************)
\* lines 214-226
GenerateInfoBegin ==
  /\ pc = "scan"
  /\ info' = EmptyInfo
  /\ ply_files' = scan_ply_files(dirExists, dir)
  /\ idx' = 1
  /\ pc' = IF ply_files' = << >> THEN "check" ELSE "loop"
  /\ UNCHANGED <<appVars, object_key, boxVars>>

\* lines 228-243 and 61-63: the next file, its key, its name entry; open it
NextFile ==
  /\ pc = "loop"
  /\ IF idx > Len(ply_files)
     THEN /\ pc' = "check"
          /\ UNCHANGED <<info, object_key, boxVars>>
     ELSE LET filename == ply_files[idx].name
              original_key == generate_object_name(filename)
              key == UniqueKey(original_key, original_key, 1, DOMAIN info.name)
          IN  /\ object_key' = key
              /\ info' = [info EXCEPT !.name = Put(info.name, key, filename)]
              /\ header_lines' = << >>
              /\ eof_reads' = 0
              /\ fpos' = 0
              /\ wpos' = 0
              /\ format_type' = "ascii"
              /\ vertex_count' = 0
              /\ properties' = << >>
              /\ vi' = 0
              /\ acc' = EmptyAcc
              /\ bbox' = None
              /\ pc' = "header"
  /\ UNCHANGED <<appVars, ply_files, idx>>

\* lines 64-68: one pass of the header loop.  At end of stream readline()
\* returns the empty line, which is appended like any other: the list grows
\* without bound, and the model keeps the count of these lines modulo
\* MaxEofReads + 1.
ReadHeaderLine ==
  /\ pc = "header"
  /\ LET f == ply_files[idx]
         atEof == fpos >= Len(f.lines)
         line == IF atEof THEN << >> ELSE f.lines[fpos + 1]
     IN  /\ fpos' = IF atEof THEN fpos ELSE fpos + 1
         /\ header_lines' = IF atEof THEN header_lines ELSE Append(header_lines, line)
         /\ eof_reads' = IF atEof THEN (eof_reads + 1) % (MaxEofReads + 1) ELSE eof_reads
         /\ pc' = IF line = EndHeader THEN "parse" ELSE "header"
  /\ UNCHANGED <<appVars, buildVars, wpos, format_type, vertex_count, properties,
                 vi, acc, bbox>>

\* lines 70-94: the header's fields, the coordinate indices, the accumulator
ParseHeader ==
  /\ pc = "parse"
  /\ LET h == ParseHeaderLines(header_lines)
         failed == \/ h.err
                   \/ Index(h.properties, "x") < 0
                   \/ Index(h.properties, "y") < 0
                   \/ Index(h.properties, "z") < 0
     IN  /\ format_type' = h.format_type
         /\ vertex_count' = h.vertex_count
         /\ properties' = h.properties
         /\ pc' = IF failed THEN "store"
                  ELSE IF /\ h.vertex_count > 0
                          /\ h.format_type \in {"ascii"} \cup BinaryFormats
                       THEN "vertices"
                       ELSE "final"
  /\ bbox' = None
  /\ acc' = EmptyAcc
  /\ vi' = 0
  /\ UNCHANGED <<appVars, buildVars, header_lines, eof_reads, fpos, wpos>>

BytesPerProperty == 4

\* lines 98-113: one pass of the text loop; r.raised is a ValueError of float()
AsciiStep(f, pos, a, props) ==
  LET atEof == pos >= Len(f.lines)
      parts == IF atEof THEN << >> ELSE f.lines[pos + 1]
      x_idx == Index(props, "x")
      y_idx == Index(props, "y")
      z_idx == Index(props, "z")
      next == IF atEof THEN pos ELSE pos + 1
  IN  IF parts = << >> THEN [raised |-> FALSE, fpos |-> next, acc |-> a]
      ELSE IF Len(parts) > Max3(x_idx, y_idx, z_idx)
           THEN IF /\ IsFloatLit(parts[x_idx + 1])
                   /\ IsFloatLit(parts[y_idx + 1])
                   /\ IsFloatLit(parts[z_idx + 1])
                THEN [raised |-> FALSE, fpos |-> next,
                      acc |-> Fold(a, FloatOf(parts[x_idx + 1]),
                                   FloatOf(parts[y_idx + 1]),
                                   FloatOf(parts[z_idx + 1]))]
                ELSE [raised |-> TRUE, fpos |-> next, acc |-> a]
           ELSE [raised |-> FALSE, fpos |-> next, acc |-> a]

\* lines 118-141: one pass of the binary loop; r.short is the break of line 127
BinaryStep(f, pos, a, props, fmt) ==
  LET endian == IF fmt = "binary_little_endian" THEN "<" ELSE ">"
      bytes_per_vertex == Len(props) * BytesPerProperty
      available == BytesPerProperty * (Len(f.words) - pos) + f.extra
      x_idx == Index(props, "x")
      y_idx == Index(props, "y")
      z_idx == Index(props, "z")
  IN  IF available < bytes_per_vertex
      THEN [short |-> TRUE, wpos |-> Len(f.words), acc |-> a]
      ELSE [short |-> FALSE, wpos |-> pos + Len(props),
            acc |-> Fold(a, Unpack(endian, f.words[pos + x_idx + 1]),
                         Unpack(endian, f.words[pos + y_idx + 1]),
                         Unpack(endian, f.words[pos + z_idx + 1]))]

\* one pass of the vertex loop of the declared format
ReadVertex ==
  /\ pc = "vertices"
  /\ vi' = vi + 1
  /\ IF format_type = "ascii"
     THEN LET r == AsciiStep(ply_files[idx], fpos, acc, properties)
          IN  /\ fpos' = r.fpos
              /\ acc' = r.acc
              /\ wpos' = wpos
              /\ pc' = IF r.raised THEN "store"
                       ELSE IF vi + 1 = vertex_count THEN "final" ELSE "vertices"
     ELSE LET r == BinaryStep(ply_files[idx], wpos, acc, properties, format_type)
          IN  /\ wpos' = r.wpos
              /\ acc' = r.acc
              /\ fpos' = fpos
              /\ pc' = IF r.short \/ vi + 1 = vertex_count THEN "final"
                       ELSE "vertices"
  /\ UNCHANGED <<appVars, buildVars, header_lines, eof_reads, format_type,
                 vertex_count, properties, bbox>>

\* lines 143-162
Finalize ==
  /\ pc = "final"
  /\ bbox' = BoxOf(acc)
  /\ pc' = "store"
  /\ UNCHANGED <<appVars, buildVars, header_lines, eof_reads, fpos, wpos,
                 format_type, vertex_count, properties, vi, acc>>

\* a mutant of lines 247-260: no entry when the computation failed
BoxEntryOrNothing(boxes, key, b) ==
  IF ~IsNone(b) THEN Put(boxes, key, [x |-> b.x, y |-> b.y, z |-> b.z]) ELSE boxes

\* lines 247-260: "if bbox" is true of every dict the computation returns
BoxEntry(boxes, key, b) ==
  IF ~IsNone(b) THEN Put(boxes, key, [x |-> b.x, y |-> b.y, z |-> b.z])
  ELSE Put(boxes, key, UnitBox)

\* lines 245-265
StoreBox ==
  /\ pc = "store"
  /\ info' = [info EXCEPT
                !.bounding_box = BoxEntry(info.bounding_box, object_key, bbox),
                !.labels = Put(info.labels, ply_files[idx].name,
                               generate_labels(ply_files[idx].name))]
  /\ idx' = idx + 1
  /\ pc' = "loop"
  /\ UNCHANGED <<appVars, ply_files, object_key, boxVars>>

(***************************************************************************)
(* process and save_info_json.                                             *)
(***************************************************************************)
\* a mutant of lines 289-291: the index is saved even when it is empty
SavesAlways(i) == TRUE

\* lines 289-291
HasFiles(i) == DOMAIN i.name # {}

\* lines 287-293: the test of the built index
ProcessCheck ==
  /\ pc = "check"
  /\ IF HasFiles(info)
     THEN pc' = "save" /\ result' = result
     ELSE pc' = "idle" /\ result' = "fail"
  /\ UNCHANGED <<dirExists, dir, stored, prior, op, runs, buildVars, boxVars>>

SaveOutcomes == {"saved", "open_failed", "write_failed"}

\* lines 271-282: mkdir or open fails and leaves the path alone; open(.., 'w')
\* truncates, so a failure of the dump leaves a partial file
Written(outcome, old, i) ==
  CASE outcome = "saved" -> Valid(i)
    [] outcome = "open_failed" -> old
    [] outcome = "write_failed" -> Partial

SaveInfoJson ==
  /\ pc = "save"
  /\ \E outcome \in SaveOutcomes :
       /\ stored' = Written(outcome, stored, info)
       /\ result' = IF outcome = "saved" THEN "ok" ELSE "fail"
  /\ pc' = "idle"
  /\ UNCHANGED <<dirExists, dir, prior, op, runs, buildVars, boxVars>>

Next ==
  \/ InitializeSceneInfo
  \/ RegenerateInfo
  \/ GetSceneInfo
  \/ GenerateInfoBegin
  \/ NextFile
  \/ ReadHeaderLine
  \/ ParseHeader
  \/ ReadVertex
  \/ Finalize
  \/ StoreBox
  \/ ProcessCheck
  \/ SaveInfoJson

NextBox ==
  \/ InitializeSceneInfo
  \/ GenerateInfoBegin
  \/ NextFile
  \/ ReadHeaderLine
  \/ ParseHeader
  \/ ReadVertex
  \/ Finalize
  \/ StoreBox
  \/ ProcessCheck
  \/ SaveInfoJson

Spec == Init /\ [][Next]_vars
SpecKeys == InitKeys /\ [][Next]_vars
SpecBox == InitBox /\ [][NextBox]_vars
FairSpecBox == InitBox /\ [][NextBox]_vars /\ WF_vars(NextBox)
SpecNames == InitNames /\ [][NextBox]_vars


(***************************************************************************)
(* Vocabulary of the properties.                                           *)
(***************************************************************************)
\* the thread is between two passes of the per-file loop, or outside it
BetweenFiles == pc \in {"boot", "idle", "scan", "loop", "check", "save"}

\* the files whose pass of the loop is complete
Processed == 1..(idx - 1)

Range(d) == {d[k] : k \in DOMAIN d}

HasKey(filename) == \E k \in DOMAIN info.name : info.name[k] = filename
KeyOf(filename) == CHOOSE k \in DOMAIN info.name : info.name[k] = filename

SetMax(S) == CHOOSE m \in S : \A n \in S : n <= m
SetMin(S) == CHOOSE m \in S : \A n \in S : m <= n

HasEndHeader(f) == \E i \in 1..Len(f.lines) : f.lines[i] = EndHeader
HeaderEnd(f) == SetMin({i \in 1..Len(f.lines) : f.lines[i] = EndHeader})

\* the names the property lines of the header declare
DeclaredProperties(f) ==
  {f.lines[i][Len(f.lines[i])] :
     i \in {j \in 1..HeaderEnd(f) : f.lines[j] # << >> /\ f.lines[j][1] = "property"}}

\* v to the nearest multiple of 10^-4, a tie to the even multiple
Nearest4(v) ==
  LET lo == 10 * (v \div 10)
      hi == lo + 10
  IN  IF v - lo < hi - v THEN lo
      ELSE IF v - lo > hi - v THEN hi
      ELSE IF (lo \div 10) % 2 = 0 THEN lo ELSE hi

SizeOf(S) == Nearest4(SetMax(S) - SetMin(S))

(***************************************************************************)
(* C1.  Between two passes of the per-file loop, and when the build has    *)
(* returned, name and bounding_box have the same keys, there is one key    *)
(* per file processed so far (so no two files share a key), and labels     *)
(* has one entry per file processed so far, under its filename.            *)
(***************************************************************************)
C1_IndexShape ==
  BetweenFiles =>
    /\ DOMAIN info.name = DOMAIN info.bounding_box
    /\ Cardinality(DOMAIN info.name) = idx - 1
    /\ Range(info.name) = {ply_files[i].name : i \in Processed}
    /\ DOMAIN info.labels = {ply_files[i].name : i \in Processed}
    /\ Cardinality(DOMAIN info.labels) = idx - 1
    /\ (pc = "check" => idx - 1 = Len(ply_files))

C1_Witness ==
  /\ pc = "check"
  /\ Len(ply_files) = 2
  /\ ply_files[1].lines = BadFormatLines
  /\ ply_files[2].lines = GoodLines
  /\ Cardinality(DOMAIN info.bounding_box) = 2

(***************************************************************************)
(* C2.  As claimed: the k-th scanned file of a base gets base (k = 0) or   *)
(* base_k, whatever else is in the directory.                              *)
(***************************************************************************)
Candidate(base, n) == IF n = 0 THEN base ELSE base \o <<"_">> \o IntToStr(n)

BaseOf(i) == generate_object_name(ply_files[i].name)

EarlierSameBase(i) == Cardinality({j \in 1..(i - 1) : BaseOf(j) = BaseOf(i)})

C2_KthGetsBaseK ==
  BetweenFiles =>
    \A i \in Processed :
      /\ HasKey(ply_files[i].name)
      /\ KeyOf(ply_files[i].name) = Candidate(BaseOf(i), EarlierSameBase(i))

(***************************************************************************)
(* C2, amended.  Each scanned file gets the first of base, base_1,         *)
(* base_2, ... that no earlier file of the scan was given; that is base_k  *)
(* for the k-th file of the base when no earlier file of another base was  *)
(* given one of these keys; no two files share a key; and a build that     *)
(* follows a saved build of the same directory assigns the same keys.      *)
(***************************************************************************)
EarlierKeys(i) == {KeyOf(ply_files[j].name) : j \in 1..(i - 1)}

FirstFree(i) ==
  Candidate(BaseOf(i),
            SetMin({n \in 0..i : Candidate(BaseOf(i), n) \notin EarlierKeys(i)}))

Undisturbed(i) ==
  \A j \in 1..(i - 1) :
    BaseOf(j) # BaseOf(i) =>
      KeyOf(ply_files[j].name) \notin {Candidate(BaseOf(i), n) : n \in 0..i}

C2_FirstFreeKey ==
  BetweenFiles =>
    /\ \A i \in Processed :
         /\ HasKey(ply_files[i].name)
         /\ KeyOf(ply_files[i].name) = FirstFree(i)
         /\ Undisturbed(i) =>
              KeyOf(ply_files[i].name) = Candidate(BaseOf(i), EarlierSameBase(i))
    /\ Cardinality(DOMAIN info.name) = idx - 1
    /\ (pc = "check" /\ prior.kind = "valid" => info.name = prior.info.name)

C2_Witness ==
  /\ pc = "check"
  /\ op = "regen"
  /\ prior.kind = "valid"
  /\ Len(ply_files) = 3
  /\ \A i \in 1..3 : BaseOf(i) = <<"b">>
  /\ DOMAIN info.name = {<<"b">>, <<"b", "_", "1">>, <<"b", "_", "2">>}

(***************************************************************************)
(* C3.  As claimed: a processed file whose first line is not "ply" has no  *)
(* entry in name and none in bounding_box.                                 *)
(***************************************************************************)
BadMagic(f) == f.lines = << >> \/ f.lines[1] # <<"ply">>

C3_BadMagicSkipped ==
  BetweenFiles =>
    \A i \in Processed :
      BadMagic(ply_files[i]) =>
        /\ ply_files[i].name \notin Range(info.name)
        /\ Cardinality(DOMAIN info.bounding_box) < idx - 1

(***************************************************************************)
(* C4.  As claimed: when the file being read has no end_header line, the   *)
(* header loop is left and the build returns.                              *)
(***************************************************************************)
C4_TruncatedHeaderReturns ==
  (pc = "header" /\ ~HasEndHeader(ply_files[idx])) ~> (pc = "idle")


(***************************************************************************)
(* C5.  A processed file whose header ends and declares no x, no y or no   *)
(* z has its key in name, its labels under its filename and the unit box   *)
(* as its bounding_box entry; the files processed before and after it      *)
(* have their entries, a well-formed one the box of its own vertices.      *)
(***************************************************************************)
LacksCoordinate(f) ==
  /\ HasEndHeader(f)
  /\ ~({"x", "y", "z"} \subseteq DeclaredProperties(f))

GoodBox == [x |-> 3120, y |-> 100000, z |-> 100000]

C5_MissingCoordinateKept ==
  BetweenFiles =>
    \A i \in Processed :
      /\ LacksCoordinate(ply_files[i]) =>
           /\ HasKey(ply_files[i].name)
           /\ info.bounding_box[KeyOf(ply_files[i].name)] =
                [x |-> 100000, y |-> 100000, z |-> 100000]
           /\ ply_files[i].name \in DOMAIN info.labels
           /\ info.labels[ply_files[i].name][1] = BaseOf(i)
      /\ (\E j \in Processed : LacksCoordinate(ply_files[j])) =>
           /\ HasKey(ply_files[i].name)
           /\ ply_files[i].name \in DOMAIN info.labels
           /\ ply_files[i].lines = GoodLines =>
                info.bounding_box[KeyOf(ply_files[i].name)] = GoodBox

C5_Witness ==
  /\ pc = "check"
  /\ Len(ply_files) = 2
  /\ ply_files[1].lines = NoZLines
  /\ ply_files[2].lines = GoodLines
  /\ info.bounding_box[KeyOf(ply_files[1].name)] = UnitBox
  /\ info.bounding_box[KeyOf(ply_files[2].name)] = GoodBox

(***************************************************************************)
(* C6.  As claimed: when no vertex was folded into the accumulator,        *)
(* compute_bounding_box returns no box, the entry stored is the unit box,  *)
(* and no stored size is negative or infinite.                             *)
(***************************************************************************)
C6_EmptyBoxIsUnitBox ==
  /\ (pc = "store" /\ acc = EmptyAcc) => IsNone(bbox)
  /\ (pc = "loop" /\ idx > 1 /\ acc = EmptyAcc) =>
       info.bounding_box[object_key] = [x |-> 100000, y |-> 100000, z |-> 100000]
  /\ \A k \in DOMAIN info.bounding_box :
       /\ IsFinite(info.bounding_box[k].x) /\ info.bounding_box[k].x >= 0
       /\ IsFinite(info.bounding_box[k].y) /\ info.bounding_box[k].y >= 0
       /\ IsFinite(info.bounding_box[k].z) /\ info.bounding_box[k].z >= 0

(***************************************************************************)
(* C7.  As claimed: when an operation that began with a valid index at     *)
(* the output path has failed, that index is still there, unchanged.       *)
(***************************************************************************)
C7_FailureKeepsIndex ==
  (pc = "idle" /\ result = "fail" /\ prior.kind = "valid") => stored = prior

(***************************************************************************)
(* C8.  While process() runs on a directory that is missing or holds no    *)
(* mesh file, no step changes what is at the output path, and it returns   *)
(* failure with all three mappings empty.                                  *)
(***************************************************************************)
IsMesh(f) == f.isfile /\ (EndsWith(f.name, DotPly) \/ EndsWith(f.name, DotPLY))

NoMeshFiles == ~dirExists \/ \A f \in dir : ~IsMesh(f)

InProcess ==
  pc \in {"scan", "loop", "header", "parse", "vertices", "final", "store", "check",
          "save"}

C8_EmptyBuildWritesNothing ==
  [][(NoMeshFiles /\ InProcess) =>
       /\ stored' = stored
       /\ InProcess' \/ pc' = "idle"
       /\ pc' = "idle" => (result' = "fail" /\ info' = EmptyInfo)]_vars

C8_Witness ==
  /\ pc = "idle"
  /\ op = "get"
  /\ dirExists
  /\ dir # {}
  /\ NoMeshFiles
  /\ result = "fail"
  /\ info = EmptyInfo
  /\ stored = Absent

(***************************************************************************)
(* C9.  For a text file whose header parsed, the vertex loop reads the N   *)
(* lines after the header (fewer when the stream ends first); a line with  *)
(* too few tokens for the largest coordinate index is passed over and      *)
(* never ends the scan; and when the other lines hold numbers and there    *)
(* is at least one, the size on each axis is max - min of their values,    *)
(* rounded to 4 decimals.                                                  *)
(***************************************************************************)
HeaderParsed ==
  /\ HasEndHeader(ply_files[idx])
  /\ ~ParseHeaderLines(header_lines).err
  /\ {"x", "y", "z"} \subseteq SeqRange(properties)

\* the positions in f.lines of the records the scan covers
BodyLines(f, n) ==
  {i \in (HeaderEnd(f) + 1)..(HeaderEnd(f) + n) : i <= Len(f.lines)}

Position(p) == SetMin({i \in 1..Len(properties) : properties[i] = p})

LongEnough(line) == \A p \in {"x", "y", "z"} : Len(line) >= Position(p)

KeptLines(f, n) == {i \in BodyLines(f, n) : LongEnough(f.lines[i])}

Numeric(line) == \A p \in {"x", "y", "z"} : IsFloatLit(line[Position(p)])

TextValues(f, n, p) == {FloatOf(f.lines[i][Position(p)]) : i \in KeptLines(f, n)}

C9_TextBox ==
  (/\ pc = "store"
   /\ HeaderParsed
   /\ format_type = "ascii"
   /\ \A i \in KeptLines(ply_files[idx], vertex_count) : Numeric(ply_files[idx].lines[i]))
  => LET f == ply_files[idx]
         n == vertex_count
     IN  /\ ~IsNone(bbox)
         /\ vi = n
         /\ fpos = HeaderEnd(f) + Cardinality(BodyLines(f, n))
         /\ KeptLines(f, n) # {} =>
              /\ bbox.x = SizeOf(TextValues(f, n, "x"))
              /\ bbox.y = SizeOf(TextValues(f, n, "y"))
              /\ bbox.z = SizeOf(TextValues(f, n, "z"))

C9_Witness ==
  /\ pc = "store"
  /\ format_type = "ascii"
  /\ properties = <<"x", "y", "z">>
  /\ vertex_count = 3
  /\ SubSeq(ply_files[idx].lines, HeaderEnd(ply_files[idx]) + 1,
            Len(ply_files[idx].lines)) = <<LineShort, LineC, LineA>>
  /\ bbox = [x |-> 100000, y |-> 0, z |-> 9380]

(***************************************************************************)
(* C10.  For a binary file whose header parsed, the scan takes records of  *)
(* 4 bytes per declared property, stops without an error at the first      *)
(* record the stream cannot fill, and takes at most vertex_count of them;  *)
(* when it took at least one, the size on each axis is max - min over the  *)
(* records taken, as round(., 4) reports it.                               *)
(***************************************************************************)
Endian == IF format_type = "binary_little_endian" THEN "le" ELSE "be"

\* the full records the stream holds
FullRecords(f) == (4 * Len(f.words) + f.extra) \div (4 * Len(properties))

RecordsTaken(f) ==
  IF FullRecords(f) < vertex_count THEN FullRecords(f) ELSE vertex_count

BinaryValues(f, p) ==
  {f.words[(r - 1) * Len(properties) + Position(p)][Endian] : r \in 1..RecordsTaken(f)}

Delimiters == {"_", "-", " "}

\* the positions of s at which a maximal delimiter-free piece starts
PieceStarts(s) ==
  {i \in 1..Len(s) :
     s[i] \notin Delimiters /\ (i = 1 \/ s[i - 1] \in Delimiters)}

\* the piece that starts at i
Piece(s, i) ==
  LET j == CHOOSE e \in i..Len(s) :
             /\ \A k \in i..e : s[k] \notin Delimiters
             /\ (e = Len(s) \/ s[e + 1] \in Delimiters)
  IN  SubSeq(s, i, j)

\* the starts of the pieces that become labels: longer than one character,
\* not the whole of s, and not seen at an earlier start
LabelStarts(s) ==
  {i \in PieceStarts(s) :
     /\ Len(Piece(s, i)) > 1
     /\ Piece(s, i) # s
     /\ \A j \in PieceStarts(s) : j < i => Piece(s, j) # Piece(s, i)}

\* the n-th smallest member of a set of numbers
Nth(S, n) == CHOOSE x \in S : Cardinality({y \in S : y < x}) = n - 1

\* labels is base_name followed by the label pieces of its lowercase form, in
\* the order they start
BaseThenWords(labels, base_name) ==
  LET s == LowerStr(base_name)
      starts == LabelStarts(s)
  IN  /\ Len(labels) = 1 + Cardinality(starts)
      /\ labels[1] = base_name
      /\ \A n \in 1..Cardinality(starts) : labels[n + 1] = Piece(s, Nth(starts, n))

NoDuplicates(labels) ==
  \A m, n \in 1..Len(labels) : m # n => labels[m] # labels[n]

WithoutExtension(filename) == SubSeq(filename, 1, Len(filename) - Len(DotPly))

\* C12 as stated: the candidate key of a scanned file is its filename with only
\* the trailing extension removed, every other character kept.  The first file
\* of the scan is keyed by its candidate key, no key being taken before it.
C12_OnlyTrailingExtensionRemoved ==
  \A k \in DOMAIN info.name :
    info.name[k] = ply_files[1].name => k = WithoutExtension(info.name[k])

=============================================================================
